---- MODULE Spec2Model ----
(***************************************************************************)
(* A model of the instruction execution core of the NES-6502 emulator      *)
(* (src/src/cpu/cpu.cc).  The register file, the operand cell, the current *)
(* command and the bus memory are the state; clock() and reset() are the   *)
(* actions.  Every operation of cpu.cc is an operator over a record of the *)
(* core's fields, translated statement by statement.  The collaborators    *)
(* whose code is not part of the source tree (the status word, the memory  *)
(* facade, the decode table, Command::execute) follow the specification.   *)
(***************************************************************************)
EXTENDS Integers, Sequences, FiniteSets, TLC

\* Widths of the C++ integer types the core uses.
ByteSize == 256
WordSize == 65536

Byte == 0 .. (ByteSize - 1)
Word == 0 .. (WordSize - 1)

\* uint8_t / uint16_t conversion of an int value.
U8(v)  == v % ByteSize
U16(v) == v % WordSize

\* (int8_t) conversion of a byte.
Int8(v) == IF v >= 128 THEN v - ByteSize ELSE v

(***************************************************************************)
(* Bitwise operators of C++ on non-negative values.                        *)
(***************************************************************************)
RECURSIVE BitAnd(_, _)
BitAnd(u, v) ==
  IF u = 0 \/ v = 0 THEN 0
  ELSE (u % 2) * (v % 2) + 2 * BitAnd(u \div 2, v \div 2)

RECURSIVE BitOr(_, _)
BitOr(u, v) ==
  IF u = 0 THEN v
  ELSE IF v = 0 THEN u
  ELSE (IF (u % 2) + (v % 2) > 0 THEN 1 ELSE 0) + 2 * BitOr(u \div 2, v \div 2)

RECURSIVE BitXor(_, _)
BitXor(u, v) ==
  IF u = 0 THEN v
  ELSE IF v = 0 THEN u
  ELSE (((u % 2) + (v % 2)) % 2) + 2 * BitXor(u \div 2, v \div 2)

\* ~v of a uint8_t v, converted back to uint8_t (the int result is -1 - v).
Not8(v) == U8(0 - 1 - v)

(***************************************************************************)
(* Status word P: bit 7 N, 6 V, 5 unused, 4 B, 3 D, 2 I, 1 Z, 0 C.         *)
(***************************************************************************)
FlagN == 128
FlagV == 64
FlagU == 32
FlagB == 16
FlagD == 8
FlagI == 4
FlagZ == 2
FlagC == 1

\* Whether the bit of mask f is set in status byte st.
isSet(st, f) == (st \div f) % 2 = 1

\* Status byte st with the bit of mask f forced to b.
setFlag(st, f, b) ==
  IF b THEN (IF isSet(st, f) THEN st ELSE st + f)
       ELSE (IF isSet(st, f) THEN st - f ELSE st)

isCarry(st)     == isSet(st, FlagC)
isZero(st)      == isSet(st, FlagZ)
isInterrupt(st) == isSet(st, FlagI)
isDecimal(st)   == isSet(st, FlagD)
isBreak(st)     == isSet(st, FlagB)
isOverflow(st)  == isSet(st, FlagV)
isNegative(st)  == isSet(st, FlagN)
getCarry(st)    == IF isCarry(st) THEN 1 ELSE 0

\* Setters fed a raw (wider than 8 bit) value.
setNegative(st, v) == setFlag(st, FlagN, (U16(v) \div 128) % 2 = 1)
setZero(st, v)     == setFlag(st, FlagZ, U16(v) % ByteSize = 0)
setCarry(st, v)    == setFlag(st, FlagC, U16(v) > 255)

\* Setters fed a truth value.
setNegativeB(st, b)  == setFlag(st, FlagN, b)
setZeroB(st, b)      == setFlag(st, FlagZ, b)
setCarryB(st, b)     == setFlag(st, FlagC, b)
setOverflow(st, b)   == setFlag(st, FlagV, b)
setDecimal(st, b)    == setFlag(st, FlagD, b)
setInterrupt(st, b)  == setFlag(st, FlagI, b)

(***************************************************************************)
(* The bus: a 16-bit address space of bytes.  The memory is kept as the    *)
(* finite function of the cells that were loaded or written; every other   *)
(* cell reads as Background.                                               *)
(***************************************************************************)
Background == 0

busRead(m, addr) == IF addr \in DOMAIN m THEN m[addr] ELSE Background

busWrite(m, addr, data) ==
  [d \in (DOMAIN m) \cup {addr} |-> IF d = addr THEN data ELSE m[d]]

VARIABLES
  a,      \* accumulator
  x,      \* index register X
  y,      \* index register Y
  s,      \* stack pointer
  p,      \* status word
  pc,     \* program counter
  op,     \* resolved operand
  cmd,    \* currently executing command
  mem,    \* bus memory
  hist    \* the calls made so far, each with the state before and after

vars == <<a, x, y, s, p, pc, op, cmd, mem, hist>>

\* The core's fields as one record; bus is the list of bus accesses and log
\* the list of trace-sink calls issued so far by the running call.
Core ==
  [a |-> a, x |-> x, y |-> y, s |-> s, p |-> p, pc |-> pc, op |-> op,
   cmd |-> cmd, mem |-> mem, bus |-> << >>, log |-> << >>]

\* Mem::read / Mem::write through the facade, with the access recorded.
memRead(c, addr) == busRead(c.mem, addr)

didRead(c, addr) ==
  [c EXCEPT !.bus = Append(@, [kind |-> "r", addr |-> addr, data |-> busRead(c.mem, addr)])]

memWrite(c, addr, data) ==
  [c EXCEPT !.mem = busWrite(@, addr, data),
            !.bus = Append(@, [kind |-> "w", addr |-> addr, data |-> data])]

(***************************************************************************)
(* Memory facade (Mem).  Each helper reads at the program counter, which   *)
(* it advances, and yields the core after the accesses (c) and the value   *)
(* it returns (v).                                                         *)
(***************************************************************************)

\* read_word_le(addr): two bus reads at addr and addr + 1, little-endian.
readWord(c, addr) ==
  LET lo == memRead(c, addr)
      hi == memRead(c, U16(addr + 1))
  IN  [c |-> didRead(didRead(c, addr), U16(addr + 1)), v |-> lo + ByteSize * hi]

\* abs(pc): the word at PC; PC advances by 2.
abs(c) ==
  LET r == readWord(c, c.pc)
  IN  [c |-> [r.c EXCEPT !.pc = U16(@ + 2)], v |-> r.v]

\* abs(pc, idx): like abs, then idx added with 16-bit carry.
absIdx(c, idx) ==
  LET r == abs(c)
  IN  [c |-> r.c, v |-> U16(r.v + idx)]

\* zpg(pc): the byte at PC, zero-extended; PC advances by 1.
zpg(c) ==
  [c |-> [didRead(c, c.pc) EXCEPT !.pc = U16(@ + 1)], v |-> memRead(c, c.pc)]

\* zpg(pc, idx): like zpg, idx added modulo 256.
zpgIdx(c, idx) ==
  LET r == zpg(c)
  IN  [c |-> r.c, v |-> U8(r.v + idx)]

\* indirect(pc): the word the pointer at PC points to; a pointer whose low
\* byte is 0xFF takes the high byte of the target from the start of its page.
indirect(c) ==
  LET r   == abs(c)
      ptr == r.v
      nxt == IF ptr % ByteSize = 255 THEN ptr - 255 ELSE U16(ptr + 1)
      lo  == memRead(r.c, ptr)
      hi  == memRead(r.c, nxt)
  IN  [c |-> didRead(didRead(r.c, ptr), nxt), v |-> lo + ByteSize * hi]

\* indexed(pc, x): the word at zero page (LL + x) and (LL + x + 1), both
\* wrapped into page 0.
indexedX(c, idx) ==
  LET r   == zpg(c)
      z0  == U8(r.v + idx)
      z1  == U8(r.v + idx + 1)
      lo  == memRead(r.c, z0)
      hi  == memRead(r.c, z1)
  IN  [c |-> didRead(didRead(r.c, z0), z1), v |-> lo + ByteSize * hi]

\* indexed(pc): the word at zero page LL and (LL + 1) wrapped into page 0.
indexed(c) == indexedX(c, 0)

(***************************************************************************)
(* Decoder (Map): opcode byte -> command (mnemonic, addressing mode).      *)
(***************************************************************************)
Mnemonics ==
  <<
     "BRK", "ORA", "JAM", "SLO", "NOP", "ORA", "ASL", "SLO", "PHP", "ORA", "ASL", "ANC", "NOP", "ORA", "ASL", "SLO",   \* 0x
     "BPL", "ORA", "JAM", "SLO", "NOP", "ORA", "ASL", "SLO", "CLC", "ORA", "NOP", "SLO", "NOP", "ORA", "ASL", "SLO",   \* 1x
     "JSR", "AND", "JAM", "RLA", "BIT", "AND", "ROL", "RLA", "PLP", "AND", "ROL", "ANC", "BIT", "AND", "ROL", "RLA",   \* 2x
     "BMI", "AND", "JAM", "RLA", "NOP", "AND", "ROL", "RLA", "SEC", "AND", "NOP", "RLA", "NOP", "AND", "ROL", "RLA",   \* 3x
     "RTI", "EOR", "JAM", "SRE", "NOP", "EOR", "LSR", "SRE", "PHA", "EOR", "LSR", "ALR", "JMP", "EOR", "LSR", "SRE",   \* 4x
     "BVC", "EOR", "JAM", "SRE", "NOP", "EOR", "LSR", "SRE", "CLI", "EOR", "NOP", "SRE", "NOP", "EOR", "LSR", "SRE",   \* 5x
     "RTS", "ADC", "JAM", "RRA", "NOP", "ADC", "ROR", "RRA", "PLA", "ADC", "ROR", "ARR", "JMP", "ADC", "ROR", "RRA",   \* 6x
     "BVS", "ADC", "JAM", "RRA", "NOP", "ADC", "ROR", "RRA", "SEI", "ADC", "NOP", "RRA", "NOP", "ADC", "ROR", "RRA",   \* 7x
     "NOP", "STA", "NOP", "SAX", "STY", "STA", "STX", "SAX", "DEY", "NOP", "TXA", "ANE", "STY", "STA", "STX", "SAX",   \* 8x
     "BCC", "STA", "JAM", "SHA", "STY", "STA", "STX", "SAX", "TYA", "STA", "TXS", "TAS", "SHY", "STA", "SHX", "SHA",   \* 9x
     "LDY", "LDA", "LDX", "LAX", "LDY", "LDA", "LDX", "LAX", "TAY", "LDA", "TAX", "LXA", "LDY", "LDA", "LDX", "LAX",   \* Ax
     "BCS", "LDA", "JAM", "LAX", "LDY", "LDA", "LDX", "LAX", "CLV", "LDA", "TSX", "LAS", "LDY", "LDA", "LDX", "LAX",   \* Bx
     "CPY", "CMP", "NOP", "DCP", "CPY", "CMP", "DEC", "DCP", "INY", "CMP", "DEX", "SBX", "CPY", "CMP", "DEC", "DCP",   \* Cx
     "BNE", "CMP", "JAM", "DCP", "NOP", "CMP", "DEC", "DCP", "CLD", "CMP", "NOP", "DCP", "NOP", "CMP", "DEC", "DCP",   \* Dx
     "CPX", "SBC", "NOP", "ISC", "CPX", "SBC", "INC", "ISC", "INX", "SBC", "NOP", "USB", "CPX", "SBC", "INC", "ISC",   \* Ex
     "BEQ", "SBC", "JAM", "ISC", "NOP", "SBC", "INC", "ISC", "SED", "SBC", "NOP", "ISC", "NOP", "SBC", "INC", "ISC"   \* Fx
  >>

Modes ==
  <<
     "IMP", "INDX", "IMP", "INDX", "ZPG", "ZPG", "ZPG", "ZPG", "IMP", "IMM", "ACC", "IMM", "ABS", "ABS", "ABS", "ABS",   \* 0x
     "REL", "INDY", "IMP", "INDY", "ZPGX", "ZPGX", "ZPGX", "ZPGX", "IMP", "ABSY", "IMP", "ABSY", "ABSX", "ABSX", "ABSX", "ABSX",   \* 1x
     "ABS", "INDX", "IMP", "INDX", "ZPG", "ZPG", "ZPG", "ZPG", "IMP", "IMM", "ACC", "IMM", "ABS", "ABS", "ABS", "ABS",   \* 2x
     "REL", "INDY", "IMP", "INDY", "ZPGX", "ZPGX", "ZPGX", "ZPGX", "IMP", "ABSY", "IMP", "ABSY", "ABSX", "ABSX", "ABSX", "ABSX",   \* 3x
     "IMP", "INDX", "IMP", "INDX", "ZPG", "ZPG", "ZPG", "ZPG", "IMP", "IMM", "ACC", "IMM", "ABS", "ABS", "ABS", "ABS",   \* 4x
     "REL", "INDY", "IMP", "INDY", "ZPGX", "ZPGX", "ZPGX", "ZPGX", "IMP", "ABSY", "IMP", "ABSY", "ABSX", "ABSX", "ABSX", "ABSX",   \* 5x
     "IMP", "INDX", "IMP", "INDX", "ZPG", "ZPG", "ZPG", "ZPG", "IMP", "IMM", "ACC", "IMM", "IND", "ABS", "ABS", "ABS",   \* 6x
     "REL", "INDY", "IMP", "INDY", "ZPGX", "ZPGX", "ZPGX", "ZPGX", "IMP", "ABSY", "IMP", "ABSY", "ABSX", "ABSX", "ABSX", "ABSX",   \* 7x
     "IMM", "INDX", "IMM", "INDX", "ZPG", "ZPG", "ZPG", "ZPG", "IMP", "IMM", "IMP", "IMM", "ABS", "ABS", "ABS", "ABS",   \* 8x
     "REL", "INDY", "IMP", "INDY", "ZPGX", "ZPGX", "ZPGY", "ZPGY", "IMP", "ABSY", "IMP", "ABSY", "ABSX", "ABSX", "ABSY", "ABSY",   \* 9x
     "IMM", "INDX", "IMM", "INDX", "ZPG", "ZPG", "ZPG", "ZPG", "IMP", "IMM", "IMP", "IMM", "ABS", "ABS", "ABS", "ABS",   \* Ax
     "REL", "INDY", "IMP", "INDY", "ZPGX", "ZPGX", "ZPGY", "ZPGY", "IMP", "ABSY", "IMP", "ABSY", "ABSX", "ABSX", "ABSY", "ABSY",   \* Bx
     "IMM", "INDX", "IMM", "INDX", "ZPG", "ZPG", "ZPG", "ZPG", "IMP", "IMM", "IMP", "IMM", "ABS", "ABS", "ABS", "ABS",   \* Cx
     "REL", "INDY", "IMP", "INDY", "ZPGX", "ZPGX", "ZPGX", "ZPGX", "IMP", "ABSY", "IMP", "ABSY", "ABSX", "ABSX", "ABSX", "ABSX",   \* Dx
     "IMM", "INDX", "IMM", "INDX", "ZPG", "ZPG", "ZPG", "ZPG", "IMP", "IMM", "IMP", "IMM", "ABS", "ABS", "ABS", "ABS",   \* Ex
     "REL", "INDY", "IMP", "INDY", "ZPGX", "ZPGX", "ZPGX", "ZPGX", "IMP", "ABSY", "IMP", "ABSY", "ABSX", "ABSX", "ABSX", "ABSX"   \* Fx
  >>

getCommand(code) == [mn |-> Mnemonics[code + 1], mode |-> Modes[code + 1]]

\* The command pointer before the first clock().
NoCmd == [mn |-> "none", mode |-> "none"]

\* Command::isAcc
isAcc(oper) == oper.mode = "ACC"

(***************************************************************************)
(* Cpu::read / Cpu::write                                                  *)
(***************************************************************************)

\* The value read() returns.
read(c) == IF isAcc(c.cmd) THEN c.a ELSE memRead(c, c.op)

\* The core after read(): a bus read of op, unless the command is
\* accumulator-mode.
afterRead(c) == IF isAcc(c.cmd) THEN c ELSE didRead(c, c.op)

\* write that stores to the bus cell at op whatever the command's mode.
write_AlwaysBus(c, data) == memWrite(c, c.op, data)

write(c, data) ==
  IF isAcc(c.cmd) THEN [c EXCEPT !.a = data] ELSE memWrite(c, c.op, data)

(***************************************************************************)
(* Addressing-mode resolvers                                               *)
(***************************************************************************)
IMM(c)  == [c EXCEPT !.op = c.pc, !.pc = U16(c.pc + 1)]

ABS(c)  == LET r == abs(c) IN [r.c EXCEPT !.op = r.v]

ABSX(c) == LET r == absIdx(c, c.x) IN [r.c EXCEPT !.op = r.v]

ABSY(c) == LET r == absIdx(c, c.y) IN [r.c EXCEPT !.op = r.v]

ZPG(c)  == LET r == zpg(c) IN [r.c EXCEPT !.op = r.v]

ZPGX(c) == LET r == zpgIdx(c, c.x) IN [r.c EXCEPT !.op = r.v]

ZPGY(c) == LET r == zpgIdx(c, c.y) IN [r.c EXCEPT !.op = r.v]

IMP(c)  == c

ACC(c)  == [c EXCEPT !.op = c.a]

IND(c)  == LET r == indirect(c) IN [r.c EXCEPT !.op = r.v]

INDX(c) == LET r == indexedX(c, c.x) IN [r.c EXCEPT !.op = r.v]

INDY(c) ==
  LET r == indexed(c)
  IN  [r.c EXCEPT !.op = BitAnd(255, r.v + c.y)]

REL(c)  == IMM(c)

(***************************************************************************)
(* Operations                                                              *)
(***************************************************************************)
NOP(c) == c

\* ADC(uint8_t) with the carry-in left out of the sum.
ADC_arg_NoCarryIn(c, arg) ==
  LET sum == c.a + arg
  IN  [c EXCEPT !.a = U8(sum),
                !.p = setCarry(setZero(setNegative(c.p, sum), sum), sum)]

\* ADC(uint8_t) with the decimal adjustment of a non-NES 6502 when D is set.
ADC_arg_Decimal(c, arg) ==
  LET bin == c.a + arg + getCarry(c.p)
      sum == IF isDecimal(c.p) /\ (c.a % 16) + (arg % 16) + getCarry(c.p) > 9
               THEN bin + 6 ELSE bin
  IN  [c EXCEPT !.a = U8(sum),
                !.p = setCarry(setZero(setNegative(c.p, sum), sum), sum)]

\* Cpu::ADC(uint8_t): add arg to the accumulator with carry.
ADC_arg(c, arg) ==
  LET sum == c.a + arg + getCarry(c.p)
  IN  [c EXCEPT !.a = U8(sum),
                !.p = setCarry(setZero(setNegative(c.p, sum), sum), sum)]

ADC(c) == ADC_arg(afterRead(c), read(c))

ALR(c) == NOP(c)

ANC(c) == NOP(c)

AND(c) ==
  LET r == BitAnd(c.a, read(c))
  IN  [afterRead(c) EXCEPT !.a = r, !.p = setNegative(setZero(c.p, r), r)]

ANE(c) == NOP(c)

ARR(c) == NOP(c)

\* ASL that feeds the carry setter the truncated 8-bit result.
ASL_CarryFromResult(c) ==
  LET data  == read(c)
      shift == U8(data * 2)
      c1    == [afterRead(c) EXCEPT
                  !.p = setCarry(setZero(setNegative(c.p, shift), shift), shift)]
  IN  write(c1, shift)

ASL(c) ==
  LET data  == read(c)
      shift == U16(data * 2)
      c1    == [afterRead(c) EXCEPT
                  !.p = setCarry(setZero(setNegative(c.p, shift), shift), shift)]
  IN  write(c1, U8(shift))

\* BRA with the offset taken as an unsigned byte.
BRA_Unsigned(c) == [afterRead(c) EXCEPT !.pc = U16(c.pc + read(c))]

\* Cpu::BRA: the taken branch.
BRA(c) == [afterRead(c) EXCEPT !.pc = U16(c.pc + Int8(read(c)))]

BCC(c) == IF ~isCarry(c.p) THEN BRA(c) ELSE c

BCS(c) == IF isCarry(c.p) THEN BRA(c) ELSE c

BEQ(c) == IF isZero(c.p) THEN BRA(c) ELSE c

\* BIT that sets Z from the operand alone.
BIT_ZeroFromOperand(c) ==
  LET data == read(c)
  IN  [afterRead(c) EXCEPT
         !.p = setZero(setOverflow(setNegativeB(c.p, BitAnd(data, 128) # 0),
                                   BitAnd(data, 64) # 0),
                       data)]

BIT(c) ==
  LET data == read(c)
  IN  [afterRead(c) EXCEPT
         !.p = setZero(setOverflow(setNegativeB(c.p, BitAnd(data, 128) # 0),
                                   BitAnd(data, 64) # 0),
                       BitAnd(data, c.a))]

BMI(c) == IF isNegative(c.p) THEN BRA(c) ELSE c

BNE(c) == IF ~isZero(c.p) THEN BRA(c) ELSE c

BPL(c) == IF ~isNegative(c.p) THEN BRA(c) ELSE c

BRK(c) == c

BVC(c) == IF ~isOverflow(c.p) THEN BRA(c) ELSE c

BVS(c) == IF isOverflow(c.p) THEN BRA(c) ELSE c

CLC(c) == [c EXCEPT !.p = setCarryB(@, FALSE)]

CLD(c) == [c EXCEPT !.p = setDecimal(@, FALSE)]

CLI(c) == [c EXCEPT !.p = setInterrupt(@, FALSE)]

CLV(c) == [c EXCEPT !.p = setOverflow(@, FALSE)]

\* CMP(uint8_t) with the carry set on a strict comparison.
CMP_arg_Strict(c, arg) ==
  LET data == read(c)
  IN  [afterRead(c) EXCEPT
         !.p = setCarryB(setZeroB(setNegativeB(c.p, data > arg), data = arg),
                         data < arg)]

\* Cpu::CMP(uint8_t): compare the operand read with arg.
CMP_arg(c, arg) ==
  LET data == read(c)
  IN  [afterRead(c) EXCEPT
         !.p = setCarryB(setZeroB(setNegativeB(c.p, data > arg), data = arg),
                         data <= arg)]

CMP(c) == CMP_arg(c, c.a)

CPX(c) == CMP_arg(c, c.x)

CPY(c) == CMP_arg(c, c.y)

DCP(c) == NOP(c)

\* DEC that stores before it loads: the write is issued ahead of the read.
DEC_WritesFirst(c) ==
  LET data == read(c) - 1
      c1   == [c EXCEPT !.p = setZero(setNegative(c.p, data), data)]
  IN  afterRead(write(c1, U8(data)))

DEC(c) ==
  LET data == read(c) - 1
      c1   == [afterRead(c) EXCEPT !.p = setZero(setNegative(c.p, data), data)]
  IN  write(c1, U8(data))

DEX(c) ==
  LET r == U8(c.x - 1)
  IN  [c EXCEPT !.x = r, !.p = setZero(setNegative(c.p, r), r)]

DEY(c) ==
  LET r == U8(c.y - 1)
  IN  [c EXCEPT !.y = r, !.p = setZero(setNegative(c.p, r), r)]

\* EOR that ORs the operand into the accumulator.
EOR_AsOr(c) ==
  LET r == BitOr(c.a, read(c))
  IN  [afterRead(c) EXCEPT !.a = r, !.p = setZero(setNegative(c.p, r), r)]

EOR(c) ==
  LET r == BitXor(c.a, read(c))
  IN  [afterRead(c) EXCEPT !.a = r, !.p = setZero(setNegative(c.p, r), r)]

\* INC that stops at 0xFF instead of wrapping to 0x00.
INC_Saturating(c) ==
  LET old  == read(c)
      data == IF old = 255 THEN 255 ELSE old + 1
      c1   == [afterRead(c) EXCEPT !.p = setZero(setNegative(c.p, data), data)]
  IN  write(c1, data)

INC(c) ==
  LET data == U8(read(c) + 1)
      c1   == [afterRead(c) EXCEPT !.p = setZero(setNegative(c.p, data), data)]
  IN  write(c1, data)

\* INX that sets N and Z from X as it was before the increment.
INX_FlagsFromOld(c) ==
  LET r == U8(c.x + 1)
  IN  [c EXCEPT !.x = r, !.p = setZero(setNegative(c.p, c.x), c.x)]

INX(c) ==
  LET r == U8(c.x + 1)
  IN  [c EXCEPT !.x = r, !.p = setZero(setNegative(c.p, r), r)]

INY(c) ==
  LET r == U8(c.y + 1)
  IN  [c EXCEPT !.y = r, !.p = setZero(setNegative(c.p, r), r)]

ISC(c) == NOP(c)

JAM(c) == NOP(c)

JMP(c) == [c EXCEPT !.pc = c.op]

\* JSR that advances S after the first pushed byte only.
JSR_BumpsOnce(c) ==
  LET lo == BitAnd(255, c.pc)
      hi == BitAnd(65280, c.pc) \div ByteSize
      c1 == [memWrite(c, c.s, lo) EXCEPT !.s = U8(c.s + 1)]
      c2 == memWrite(c1, c1.s, hi)
  IN  JMP(c2)

JSR(c) ==
  LET lo == BitAnd(255, c.pc)
      hi == BitAnd(65280, c.pc) \div ByteSize
      c1 == [memWrite(c, c.s, lo) EXCEPT !.s = U8(c.s + 1)]
      c2 == [memWrite(c1, c1.s, hi) EXCEPT !.s = U8(c1.s + 1)]
  IN  JMP(c2)

LAS(c) == NOP(c)

LAX(c) == NOP(c)

LDA(c) ==
  LET r == read(c)
  IN  [afterRead(c) EXCEPT !.a = r, !.p = setZero(setNegative(c.p, r), r)]

LDX(c) ==
  LET r == read(c)
  IN  [afterRead(c) EXCEPT !.x = r, !.p = setZero(setNegative(c.p, r), r)]

LDY(c) ==
  LET r == read(c)
  IN  [afterRead(c) EXCEPT !.y = r, !.p = setZero(setNegative(c.p, r), r)]

LSR(c) ==
  LET data == read(c) \div 2
      c1   == [afterRead(c) EXCEPT
                 !.p = setNegativeB(setCarry(setZero(c.p, data), data), FALSE)]
  IN  write(c1, data)

LXA(c) == NOP(c)

ORA(c) ==
  LET r == BitOr(c.a, read(c))
  IN  [afterRead(c) EXCEPT !.a = r, !.p = setZero(setNegative(c.p, r), r)]

PHA(c) == [memWrite(c, c.s, c.a) EXCEPT !.s = U8(c.s + 1)]

PHP(c) == [memWrite(c, c.s, c.p) EXCEPT !.s = U8(c.s + 1)]

PLA(c) ==
  LET r == memRead(c, c.s)
  IN  [didRead(c, c.s) EXCEPT !.a = r, !.s = U8(c.s + 1),
                              !.p = setZero(setNegative(c.p, r), r)]

PLP(c) == [didRead(c, c.s) EXCEPT !.p = memRead(c, c.s), !.s = U8(c.s + 1)]

RLA(c) == c

ROL(c) == c

ROR(c) == c

RRA(c) == c

RTI(c) == c

RTS(c) == c

SAX(c) == c

\* SBC with the operand negated instead of complemented.
SBC_Negated(c) == ADC_arg(afterRead(c), U8(0 - read(c)))

\* Cpu::SBC: ADC of the complemented operand, converted to uint8_t.
SBC(c) == ADC_arg(afterRead(c), Not8(read(c)))

SBX(c) == c

SEC(c) == c

SED(c) == c

SEI(c) == c

SHA(c) == c

SHY(c) == c

SHX(c) == c

SLO(c) == c

SRE(c) == c

STA(c) == c

STX(c) == c

STY(c) == c

TAS(c) == c

TAX(c) == c

TAY(c) == c

TSX(c) == c

TXA(c) == c

TXS(c) == c

TYA(c) == c

USB(c) == c

(***************************************************************************)
(* Command::execute: the addressing-mode resolver, then the operation.     *)
(***************************************************************************)
resolve(c, mode) ==
  CASE mode = "IMP"  -> IMP(c)
    [] mode = "ACC"  -> ACC(c)
    [] mode = "IMM"  -> IMM(c)
    [] mode = "ZPG"  -> ZPG(c)
    [] mode = "ZPGX" -> ZPGX(c)
    [] mode = "ZPGY" -> ZPGY(c)
    [] mode = "ABS"  -> ABS(c)
    [] mode = "ABSX" -> ABSX(c)
    [] mode = "ABSY" -> ABSY(c)
    [] mode = "IND"  -> IND(c)
    [] mode = "INDX" -> INDX(c)
    [] mode = "INDY" -> INDY(c)
    [] mode = "REL"  -> REL(c)

operate(c, mn) ==
  CASE mn = "ADC" -> ADC(c) [] mn = "ALR" -> ALR(c) [] mn = "ANC" -> ANC(c)
    [] mn = "AND" -> AND(c) [] mn = "ANE" -> ANE(c) [] mn = "ARR" -> ARR(c)
    [] mn = "ASL" -> ASL(c) [] mn = "BCC" -> BCC(c) [] mn = "BCS" -> BCS(c)
    [] mn = "BEQ" -> BEQ(c) [] mn = "BIT" -> BIT(c) [] mn = "BMI" -> BMI(c)
    [] mn = "BNE" -> BNE(c) [] mn = "BPL" -> BPL(c) [] mn = "BRK" -> BRK(c)
    [] mn = "BVC" -> BVC(c) [] mn = "BVS" -> BVS(c) [] mn = "CLC" -> CLC(c)
    [] mn = "CLD" -> CLD(c) [] mn = "CLI" -> CLI(c) [] mn = "CLV" -> CLV(c)
    [] mn = "CMP" -> CMP(c) [] mn = "CPX" -> CPX(c) [] mn = "CPY" -> CPY(c)
    [] mn = "DCP" -> DCP(c) [] mn = "DEC" -> DEC(c) [] mn = "DEX" -> DEX(c)
    [] mn = "DEY" -> DEY(c) [] mn = "EOR" -> EOR(c) [] mn = "INC" -> INC(c)
    [] mn = "INX" -> INX(c) [] mn = "INY" -> INY(c) [] mn = "ISC" -> ISC(c)
    [] mn = "JAM" -> JAM(c) [] mn = "JMP" -> JMP(c) [] mn = "JSR" -> JSR(c)
    [] mn = "LAS" -> LAS(c) [] mn = "LAX" -> LAX(c) [] mn = "LDA" -> LDA(c)
    [] mn = "LDX" -> LDX(c) [] mn = "LDY" -> LDY(c) [] mn = "LSR" -> LSR(c)
    [] mn = "LXA" -> LXA(c) [] mn = "NOP" -> NOP(c) [] mn = "ORA" -> ORA(c)
    [] mn = "PHA" -> PHA(c) [] mn = "PHP" -> PHP(c) [] mn = "PLA" -> PLA(c)
    [] mn = "PLP" -> PLP(c) [] mn = "RLA" -> RLA(c) [] mn = "ROL" -> ROL(c)
    [] mn = "ROR" -> ROR(c) [] mn = "RRA" -> RRA(c) [] mn = "RTI" -> RTI(c)
    [] mn = "RTS" -> RTS(c) [] mn = "SAX" -> SAX(c) [] mn = "SBC" -> SBC(c)
    [] mn = "SBX" -> SBX(c) [] mn = "SEC" -> SEC(c) [] mn = "SED" -> SED(c)
    [] mn = "SEI" -> SEI(c) [] mn = "SHA" -> SHA(c) [] mn = "SHY" -> SHY(c)
    [] mn = "SHX" -> SHX(c) [] mn = "SLO" -> SLO(c) [] mn = "SRE" -> SRE(c)
    [] mn = "STA" -> STA(c) [] mn = "STX" -> STX(c) [] mn = "STY" -> STY(c)
    [] mn = "TAS" -> TAS(c) [] mn = "TAX" -> TAX(c) [] mn = "TAY" -> TAY(c)
    [] mn = "TSX" -> TSX(c) [] mn = "TXA" -> TXA(c) [] mn = "TXS" -> TXS(c)
    [] mn = "TYA" -> TYA(c) [] mn = "USB" -> USB(c)

execute(c, oper) == operate(resolve(c, oper.mode), oper.mn)

(***************************************************************************)
(* Cpu::clock and Cpu::reset as functions of the core.                     *)
(***************************************************************************)
\* Log::step(pc, oper, cpu): the sink is handed the address, the command and
\* the core's registers as they are at the time of the call.
step(c, temp, oper) ==
  [c EXCEPT !.log = Append(@, [pc |-> temp, cmd |-> oper,
                               cpu |-> [a |-> c.a, x |-> c.x, y |-> c.y, s |-> c.s,
                                        p |-> c.p, pc |-> c.pc]])]

\* clock() with the sink called before the command is executed.
clock_LogsBeforeExecute(c) ==
  LET temp == c.pc
      code == memRead(c, c.pc)
      c1   == [didRead(c, c.pc) EXCEPT !.pc = U16(c.pc + 1)]
      oper == getCommand(code)
  IN  execute(step([c1 EXCEPT !.cmd = oper], temp, oper), oper)

clock(c) ==
  LET temp == c.pc
      code == memRead(c, c.pc)
      c1   == [didRead(c, c.pc) EXCEPT !.pc = U16(c.pc + 1)]
      oper == getCommand(code)
  IN  step(execute([c1 EXCEPT !.cmd = oper], oper), temp, oper)

\* clock() is declared void: the set of cycle counts it hands back to its
\* caller is empty.
cycles(c) == {}

reset(c) ==
  [c EXCEPT !.x = 0, !.y = 0, !.p = 0, !.s = 0, !.a = 0, !.pc = 0]

\* The registers and memory at a call boundary.
Snapshot(c) ==
  [a |-> c.a, x |-> c.x, y |-> c.y, s |-> c.s, p |-> c.p, pc |-> c.pc,
   op |-> c.op, mem |-> c.mem]

\* The variables take the core's fields after a call; the call is recorded
\* with the state it started from and the bus accesses it issued.
Becomes(c, call) ==
  /\ a' = c.a /\ x' = c.x /\ y' = c.y /\ s' = c.s /\ p' = c.p
  /\ pc' = c.pc /\ op' = c.op /\ cmd' = c.cmd /\ mem' = c.mem
  /\ hist' = Append(hist, [call |-> call, cmd |-> c.cmd, pre |-> Snapshot(Core),
                           bus |-> c.bus, log |-> c.log])

(***************************************************************************)
(* Initial states.  The constructor initialises no register and the bus    *)
(* memory belongs to the host, so a run may start from any register values *)
(* and any memory image; the images below place one or two instructions at *)
(* an origin and draw the registers and the data cells from sample values. *)
(***************************************************************************)

\* Calls (clock or reset) per run.
MaxSteps == 2

\* The bytes laid out from address org on.
Load(org, bytes) ==
  [ad \in {U16(org + i - 1) : i \in 1 .. Len(bytes)} |->
     bytes[CHOOSE i \in 1 .. Len(bytes) : U16(org + i - 1) = ad]]

\* Cells the sampled operands resolve to, all holding m.
DataCells == {0, 1, 16, 17, 18, 255, 256, 257, 509, 511, 528, 529, 530, 767, 768}

Data(m) == [ad \in DataCells |-> m]

Image(a0, x0, y0, s0, p0, pc0, op0, m0) ==
  [a |-> a0, x |-> x0, y |-> y0, s |-> s0, p |-> p0, pc |-> pc0, op |-> op0,
   mem |-> m0]

Starts(img) ==
  /\ a = img.a /\ x = img.x /\ y = img.y /\ s = img.s /\ p = img.p
  /\ pc = img.pc /\ op = img.op /\ mem = img.mem
  /\ cmd = NoCmd
  /\ hist = << >>

ByteSamples == {0, 1, 64, 65, 127, 128, 129, 255}

\* Every opcode once, with operand bytes that exercise each addressing mode.
StartAny ==
  \E code \in Byte, a0 \in {1, 128}, p0 \in {0, 195}, op0 \in {0, 16},
        b1 \in {16, 255}, m \in {0, 127, 255} :
    Starts(Image(a0, 1, 2, 253, p0, 1536, op0, Load(1536, <<code, b1, 2>>) @@ Data(m)))

\* ADC, SBC, CMP, CPX, CPY with an immediate operand.
StartAlu ==
  \E code \in {105, 233, 201, 224, 192}, a0 \in ByteSamples, x0 \in {64, 128},
        m \in ByteSamples, p0 \in {0, 1, 64, 73} :
    Starts(Image(a0, x0, 65, 253, p0, 1536, 0, Load(1536, <<code, m>>)))

\* Pushes and pulls, two in a row.
StartStack ==
  \E prog \in {<<72, 104>>, <<72, 72>>, <<104, 72>>, <<8, 40>>, <<8, 104>>},
        a0 \in ByteSamples, s0 \in {0, 1, 253, 255}, p0 \in {0, 1, 65, 255},
        m \in {0, 128} :
    Starts(Image(a0, 1, 2, s0, p0, 1536, 0, Load(1536, prog) @@ Data(m)))

\* JSR to a subroutine that holds a single RTS.
StartJsr ==
  \E org \in {32768, 1790}, t \in {36864, 16}, s0 \in {0, 253, 254, 255},
        p0 \in {0, 195} :
    Starts(Image(1, 1, 2, s0, p0, org, 0,
          Load(org, <<32, t % ByteSize, t \div ByteSize, 234>>) @@ Load(t, <<96>>)))

\* The eight branches, from several origins, over every N, V, Z, C.
StartBranch ==
  \E code \in {16, 48, 80, 112, 144, 176, 208, 240},
        org \in {509, 1536, 65520, 16}, b \in {0, 4, 127, 128, 254, 255},
        fn \in {0, FlagN}, fv \in {0, FlagV}, fz \in {0, FlagZ}, fc \in {0, FlagC} :
    Starts(Image(1, 1, 2, 253, fn + fv + fz + fc, org, 0, Load(org, <<code, b>>)))

\* BRK or NOP at the origin, with the NMI, reset and IRQ/BRK vectors loaded.
StartVector ==
  \E code \in {0, 234}, a0 \in {1, 128}, s0 \in {0, 1, 2, 253}, p0 \in {0, 4, 195, 255},
        rv \in {32768, 4660}, iv \in {36864, 22136} :
    Starts(Image(a0, 1, 2, s0, p0, 1536, 0,
          Load(1536, <<code, 234, 234>>)
            @@ Load(65530, <<0, 160, rv % ByteSize, rv \div ByteSize,
                             iv % ByteSize, iv \div ByteSize>>)))

\* Two flag-control instructions in a row.
StartFlags ==
  \E c1 \in {24, 56, 88, 120, 184, 216, 248}, c2 \in {24, 56, 88, 120, 184, 216, 248},
        p0 \in {0, 1, 12, 77, 178, 255} :
    Starts(Image(1, 1, 2, 253, p0, 1536, 0, Load(1536, <<c1, c2>>)))

Init ==
  \/ StartAny \/ StartAlu \/ StartStack \/ StartJsr \/ StartBranch
  \/ StartVector \/ StartFlags

\* The host calls clock().
Clock ==
  /\ Len(hist) < MaxSteps
  /\ Becomes(clock(Core), "clock")

\* The host calls reset().
Reset ==
  /\ Len(hist) < MaxSteps
  /\ Becomes(reset(Core), "reset")

Next == Clock \/ Reset

Spec == Init /\ [][Next]_vars

(***************************************************************************)
(* The arithmetic and compare instructions over every pair of bytes: one   *)
(* instruction with an immediate operand, executed once.                   *)
(***************************************************************************)
StartAdc ==
  \E code \in {105, 233}, a0 \in Byte, m \in Byte, fc \in {0, FlagC} :
    Starts(Image(a0, 0, 0, 253, fc, 1536, 0, Load(1536, <<code, m>>)))

StartCmp ==
  \E r \in Byte, m \in Byte :
    \/ Starts(Image(r, 85, 85, 253, 0, 1536, 0, Load(1536, <<201, m>>)))
    \/ Starts(Image(85, r, 85, 253, 0, 1536, 0, Load(1536, <<224, m>>)))
    \/ Starts(Image(85, 85, r, 253, 0, 1536, 0, Load(1536, <<192, m>>)))

InitAlu == StartAdc \/ StartCmp

ClockOnce ==
  /\ hist = << >>
  /\ Becomes(clock(Core), "clock")

NextAlu == ClockOnce

SpecAlu == InitAlu /\ [][NextAlu]_vars

(***************************************************************************)
(* The Fibonacci kernel of the specification, run until the program        *)
(* counter stands on its final BRK.                                        *)
(***************************************************************************)
FibKernel ==
  <<169, 0, 133, 0, 169, 1, 133, 1, 165, 0, 24, 101, 1, 133, 2, 165, 1, 133, 0,
    165, 2, 133, 1, 0>>

StartFib ==
  \E a0 \in ByteSamples, p0 \in {0, 1, 195}, m \in {0, 85} :
    Starts(Image(a0, 1, 2, 253, p0, 1536, 0, Load(1536, FibKernel) @@ Load(0, <<m, m, m>>)))

InitFib == StartFib

\* The host calls clock() as long as the next opcode is not BRK.
ClockUntilBrk ==
  /\ busRead(mem, pc) # 0
  /\ Becomes(clock(Core), "clock")

NextFib == ClockUntilBrk

SpecFib == InitFib /\ [][NextFib]_vars

(***************************************************************************)
(* Short programs closed by a BRK byte, run until the program counter      *)
(* stands on that BRK, with the inputs of the instructions drawn from all  *)
(* 256 byte values.                                                        *)
(***************************************************************************)

\* EOR #m twice over every A and m, and EOR of a zero-page cell twice.
StartEorEor ==
  \/ \E a0 \in Byte, m \in Byte, p0 \in {0, 77} :
       Starts(Image(a0, 1, 2, 253, p0, 1536, 0, Load(1536, <<73, m, 73, m, 0>>)))
  \/ \E a0 \in Byte, m \in ByteSamples, p0 \in {0, 77} :
       Starts(Image(a0, 1, 2, 253, p0, 1536, 0,
             Load(1536, <<69, 16, 69, 16, 0>>) @@ Load(16, <<m>>)))

\* INC then DEC, or DEC then INC, of one cell holding v, in the zero-page,
\* zero-page,X, absolute and absolute,X forms.
StartIncDec ==
  \E prog \in {<<230, 16, 198, 16, 0>>, <<198, 16, 230, 16, 0>>,
               <<246, 15, 214, 15, 0>>, <<214, 15, 246, 15, 0>>,
               <<238, 16, 2, 206, 16, 2, 0>>, <<206, 16, 2, 238, 16, 2, 0>>,
               <<254, 15, 2, 222, 15, 2, 0>>, <<222, 15, 2, 254, 15, 2, 0>>},
        v \in Byte, p0 \in {0, 65, 255} :
    Starts(Image(1, 1, 2, 253, p0, 1536, 0,
          Load(1536, prog) @@ Load(16, <<v>>) @@ Load(528, <<v>>)))

\* BIT on a zero-page cell over every A and M, and on an absolute cell.
StartBit ==
  \/ \E a0 \in Byte, m \in Byte, p0 \in {0, 255} :
       Starts(Image(a0, 1, 2, 253, p0, 1536, 0, Load(1536, <<36, 16, 0>>) @@ Load(16, <<m>>)))
  \/ \E a0 \in ByteSamples, m \in Byte, p0 \in {0, 255} :
       Starts(Image(a0, 1, 2, 253, p0, 1536, 0,
             Load(1536, <<44, 16, 2, 0>>) @@ Load(528, <<m>>)))

\* One instruction whose input r is an immediate byte, a memory cell or the
\* byte under the stack pointer: the loads, AND, ORA, EOR, INC, DEC, ASL, LSR,
\* PLA and LAX.
StartOperand ==
  \E r \in Byte, q \in ByteSamples, p0 \in {0, 130, 255} :
    \E prog \in {<<169, r, 0>>, <<162, r, 0>>, <<160, r, 0>>, <<41, r, 0>>,
                 <<9, r, 0>>, <<73, r, 0>>, <<165, 16, 0>>, <<230, 16, 0>>,
                 <<198, 16, 0>>, <<6, 16, 0>>, <<14, 16, 2, 0>>, <<70, 16, 0>>,
                 <<104, 0>>, <<167, 16, 0>>} :
      Starts(Image(q, q, q, 253, p0, 1536, 0,
            Load(1536, prog) @@ Load(16, <<r>>) @@ Load(528, <<r>>) @@ Load(253, <<r>>)))

\* One instruction whose input r is a register: INX, INY, DEX, DEY, ASL A
\* and LSR A.
StartRegister ==
  \E r \in Byte, p0 \in {0, 77, 130, 255},
        prog \in {<<232, 0>>, <<200, 0>>, <<202, 0>>, <<136, 0>>, <<10, 0>>, <<74, 0>>} :
    Starts(Image(r, r, r, 253, p0, 1536, 0, Load(1536, prog)))

InitPrograms ==
  \/ StartEorEor \/ StartIncDec \/ StartBit \/ StartOperand \/ StartRegister

\* The host calls clock() until the program's closing BRK is next.
ClockProgram ==
  /\ busRead(mem, pc) # 0
  /\ Becomes(clock(Core), "clock")

NextPrograms == ClockProgram

SpecPrograms == InitPrograms /\ [][NextPrograms]_vars

(***************************************************************************)
(* Properties.  hist[i] is the i-th call; Before(i) and After(i) are the   *)
(* registers and memory around it.                                         *)
(***************************************************************************)
Calls == 1 .. Len(hist)

Before(i) == hist[i].pre

After(i) == IF i < Len(hist) THEN hist[i + 1].pre ELSE Snapshot(Core)

\* The byte at the program counter when call i started, and the one after it.
Opcode(i) == busRead(Before(i).mem, Before(i).pc)

ImmOperand(i) == busRead(Before(i).mem, (Before(i).pc + 1) % 65536)

\* Call i was a clock() that fetched one of the opcodes in codes.
Clocked(i, codes) == hist[i].call = "clock" /\ Opcode(i) \in codes

\* Bit of mask f of status byte st, as 0 or 1.
Flag(st, f) == (st \div f) % 2

\* The registers a call leaves alone.
SameRegs(i, fields) == \A f \in fields : After(i)[f] = Before(i)[f]

\* C1: for every A, M in 0..255 and carry-in C, ADC leaves A = (A + M + C)
\* mod 256, C = 1 iff A + M + C > 255, Z = 1 iff the new A is 0, and N = bit 7
\* of the new A.
C1_AdcResult ==
  \A i \in Calls :
    Clocked(i, {105}) =>
      LET sum == Before(i).a + ImmOperand(i) + Flag(Before(i).p, 1)
      IN  /\ After(i).a = sum % 256
          /\ Flag(After(i).p, 1) = (IF sum > 255 THEN 1 ELSE 0)
          /\ Flag(After(i).p, 2) = (IF After(i).a = 0 THEN 1 ELSE 0)
          /\ Flag(After(i).p, 128) = After(i).a \div 128

\* ADC with A = 0xFF, M = 0x01, C = 0 has run: A = 0x00, Z = 1, C = 1, N = 0.
C1_Witness ==
  /\ Len(hist) = 1 /\ Clocked(1, {105})
  /\ Before(1).a = 255 /\ ImmOperand(1) = 1 /\ Flag(Before(1).p, 1) = 0
  /\ a = 0 /\ Flag(p, 1) = 1 /\ Flag(p, 2) = 1 /\ Flag(p, 128) = 0

\* Signed overflow of an 8-bit addition of u and v giving r:
\* ((u ^ r) & (v ^ r) & 0x80) # 0.
SignedOverflow(u, v, r) == (u >= 128) = (v >= 128) /\ (r >= 128) # (u >= 128)

\* C2: after every ADC, and every SBC taking M as the complemented operand,
\* V = 1 iff signed overflow occurred, whatever V was before.
C2_OverflowFlag ==
  \A i \in Calls :
    /\ Clocked(i, {105}) =>
         (Flag(After(i).p, 64) = 1) =
           SignedOverflow(Before(i).a, ImmOperand(i), After(i).a)
    /\ Clocked(i, {233}) =>
         (Flag(After(i).p, 64) = 1) =
           SignedOverflow(Before(i).a, 255 - ImmOperand(i), After(i).a)

\* ADC with A = 0x7F, M = 0x01, C = 0, V = 0 has run: A = 0x80 and V is
\* still 0.
C2_Observed ==
  /\ Len(hist) = 1 /\ Clocked(1, {105})
  /\ Before(1).a = 127 /\ ImmOperand(1) = 1 /\ Before(1).p = 0
  /\ a = 128 /\ Flag(p, 64) = 0

\* C3: for every A, M in 0..255 and C, SBC leaves A = (A - M - (1 - C)) mod
\* 256, C = 1 iff no borrow occurred (A >= M + (1 - C)), and N, Z from the
\* new A.
C3_SbcResult ==
  \A i \in Calls :
    Clocked(i, {233}) =>
      LET borrow == 1 - Flag(Before(i).p, 1)
          m      == ImmOperand(i)
      IN  /\ After(i).a = (Before(i).a - m - borrow) % 256
          /\ Flag(After(i).p, 1) = (IF Before(i).a >= m + borrow THEN 1 ELSE 0)
          /\ Flag(After(i).p, 2) = (IF After(i).a = 0 THEN 1 ELSE 0)
          /\ Flag(After(i).p, 128) = After(i).a \div 128

\* SBC with A = 0x00, M = 0x01, C = 1 has run: A = 0xFF, N = 1, Z = 0, C = 0.
C3_Witness ==
  /\ Len(hist) = 1 /\ Clocked(1, {233})
  /\ Before(1).a = 0 /\ ImmOperand(1) = 1 /\ Flag(Before(1).p, 1) = 1
  /\ a = 255 /\ Flag(p, 128) = 1 /\ Flag(p, 2) = 0 /\ Flag(p, 1) = 0

\* The register CMP (0xC9), CPX (0xE0) and CPY (0xC0) compare with.
CompareReg(i) ==
  CASE Opcode(i) = 201 -> Before(i).a
    [] Opcode(i) = 224 -> Before(i).x
    [] Opcode(i) = 192 -> Before(i).y

\* C4: for CMP, CPX and CPY with register value reg and operand M, C = 1 iff
\* reg >= M and Z = 1 iff reg = M; no register and no memory cell is modified.
C4_CompareCarryZero ==
  \A i \in Calls :
    Clocked(i, {201, 224, 192}) =>
      /\ Flag(After(i).p, 1) = (IF CompareReg(i) >= ImmOperand(i) THEN 1 ELSE 0)
      /\ Flag(After(i).p, 2) = (IF CompareReg(i) = ImmOperand(i) THEN 1 ELSE 0)
      /\ SameRegs(i, {"a", "x", "y", "s", "mem"})

\* CMP with A = 0x40, M = 0x40 has run: Z = 1, C = 1, A still 0x40.
C4_Witness ==
  /\ Len(hist) = 1 /\ Clocked(1, {201})
  /\ Before(1).a = 64 /\ ImmOperand(1) = 64
  /\ Flag(p, 2) = 1 /\ Flag(p, 1) = 1 /\ a = 64

\* C5: for CMP, CPX and CPY, N = bit 7 of the low byte of reg - M.
C5_CompareNegative ==
  \A i \in Calls :
    Clocked(i, {201, 224, 192}) =>
      Flag(After(i).p, 128) = ((CompareReg(i) - ImmOperand(i)) % 256) \div 128

\* CMP with A = 0x80, M = 0x00 has run: N = 0, although bit 7 of A - M is 1.
C5_Observed ==
  /\ Len(hist) = 1 /\ Clocked(1, {201})
  /\ Before(1).a = 128 /\ ImmOperand(1) = 0
  /\ Flag(p, 128) = 0

\* The bus writes call i issued.
Writes(i) ==
  {hist[i].bus[k] : k \in {j \in 1 .. Len(hist[i].bus) : hist[i].bus[j].kind = "w"}}

\* C6: a push (PHA, PHP, JSR) writes only to page 1, and PHA writes A to
\* 0x0100 | S and then decrements S modulo 256.
C6_StackInPageOne ==
  \A i \in Calls :
    /\ Clocked(i, {72, 8, 32}) =>
         \A w \in Writes(i) : w.addr \in 256 .. 511
    /\ Clocked(i, {72}) =>
         /\ Writes(i) = {[kind |-> "w", addr |-> 256 + Before(i).s, data |-> Before(i).a]}
         /\ After(i).s = (Before(i).s - 1) % 256

\* PHA with S = 0x00, A = 0x01 has run: A was written to address 0x0000 and
\* S is 0x01.
C6_Observed ==
  /\ Len(hist) = 1 /\ Clocked(1, {72})
  /\ Before(1).s = 0 /\ Before(1).a = 1
  /\ Writes(1) = {[kind |-> "w", addr |-> 0, data |-> 1]}
  /\ s = 1

\* C7: PHA immediately followed by PLA leaves A and S as they were before
\* the PHA and changes no flag other than N and Z.
C7_PushPullRoundTrip ==
  \A i \in Calls :
    (i < Len(hist) /\ Clocked(i, {72}) /\ Clocked(i + 1, {104})) =>
      /\ After(i + 1).a = Before(i).a
      /\ After(i + 1).s = Before(i).s
      /\ \A f \in {1, 4, 8, 16, 32, 64} :
           Flag(After(i + 1).p, f) = Flag(Before(i).p, f)

\* PHA; PLA with A = 0x01, S = 0xFD has run: A = 0x00, S = 0xFF.
C7_Observed ==
  /\ Len(hist) = 2 /\ Clocked(1, {72}) /\ Clocked(2, {104})
  /\ Before(1).a = 1 /\ Before(1).s = 253
  /\ a = 0 /\ s = 255

\* The 16-bit operand of the three-byte instruction call i fetched.
AbsOperand(i) ==
  busRead(Before(i).mem, (Before(i).pc + 1) % 65536)
    + 256 * busRead(Before(i).mem, (Before(i).pc + 2) % 65536)

\* C8: a JSR at address a followed by an RTS at its target leaves PC = a + 3
\* and S as it was before the JSR.
C8_JsrRtsReturns ==
  \A i \in Calls :
    (i < Len(hist) /\ Clocked(i, {32}) /\ Clocked(i + 1, {96})) =>
      /\ After(i + 1).pc = (Before(i).pc + 3) % 65536
      /\ After(i + 1).s = Before(i).s

\* JSR $9000 at 0x8000 and the RTS at 0x9000 have run with S = 0xFD:
\* PC = 0x9001, S = 0xFF.
C8_Observed ==
  /\ Len(hist) = 2 /\ Clocked(1, {32}) /\ Clocked(2, {96})
  /\ Before(1).pc = 32768 /\ Before(1).s = 253 /\ AbsOperand(1) = 36864
  /\ pc = 36865 /\ s = 255

\* C9: JSR at address a pushes a + 2 onto the page-1 stack, high byte at
\* 0x0100 | S and low byte at 0x0100 | (S - 1), leaves S two lower, sets PC to
\* the operand and changes no flag.
C9_JsrPushesReturn ==
  \A i \in Calls :
    Clocked(i, {32}) =>
      LET ret == (Before(i).pc + 2) % 65536
          s0  == Before(i).s
          s1  == (s0 - 1) % 256
          n   == Len(hist[i].bus)
      IN  /\ n = 5
          /\ hist[i].bus[4] = [kind |-> "w", addr |-> 256 + s0, data |-> ret \div 256]
          /\ hist[i].bus[5] = [kind |-> "w", addr |-> 256 + s1, data |-> ret % 256]
          /\ After(i).s = (s0 - 2) % 256
          /\ After(i).pc = AbsOperand(i)
          /\ After(i).p = Before(i).p

\* JSR $0210 at 0x0600 has run with S = 0xFD: 0x03 was written to 0x00FD,
\* then 0x06 to 0x00FE; S = 0xFF, PC = 0x0210.
C9_Observed ==
  /\ Len(hist) = 1 /\ Clocked(1, {32})
  /\ Before(1).pc = 1536 /\ Before(1).s = 253
  /\ hist[1].bus[4] = [kind |-> "w", addr |-> 253, data |-> 3]
  /\ hist[1].bus[5] = [kind |-> "w", addr |-> 254, data |-> 6]
  /\ s = 255 /\ pc = 528

\* The condition under which the branch with opcode code is taken.
BranchTaken(code, st) ==
  CASE code = 144 -> Flag(st, 1) = 0      \* BCC
    [] code = 176 -> Flag(st, 1) = 1      \* BCS
    [] code = 240 -> Flag(st, 2) = 1      \* BEQ
    [] code = 208 -> Flag(st, 2) = 0      \* BNE
    [] code = 48  -> Flag(st, 128) = 1    \* BMI
    [] code = 16  -> Flag(st, 128) = 0    \* BPL
    [] code = 112 -> Flag(st, 64) = 1     \* BVS
    [] code = 80  -> Flag(st, 64) = 0     \* BVC

BranchCodes == {144, 176, 240, 208, 48, 16, 112, 80}

\* The offset byte b as a signed 8-bit value.
Signed8(b) == IF b < 128 THEN b ELSE b - 256

\* C10: a branch at address a with offset byte b leaves PC = (a + 2 +
\* signed8(b)) mod 65536 when its predicate holds and PC = a + 2 when it does
\* not; A, X, Y, S, P and memory are unchanged either way.
C10_BranchTarget ==
  \A i \in Calls :
    Clocked(i, BranchCodes) =>
      /\ After(i).pc =
           (IF BranchTaken(Opcode(i), Before(i).p)
              THEN (Before(i).pc + 2 + Signed8(ImmOperand(i))) % 65536
              ELSE (Before(i).pc + 2) % 65536)
      /\ SameRegs(i, {"a", "x", "y", "s", "p", "mem"})

\* BNE +4 at 0x01FD with Z = 0 has run: PC = 0x0203.
C10_Witness ==
  /\ Len(hist) = 1 /\ Clocked(1, {208})
  /\ Before(1).pc = 509 /\ ImmOperand(1) = 4 /\ Flag(Before(1).p, 2) = 0
  /\ pc = 515


\* The little-endian word stored at addr and addr + 1 of memory m.
WordAt(m, addr) == busRead(m, addr) + 256 * busRead(m, (addr + 1) % 65536)

\* C11: from any prior state, reset() leaves A = X = Y = 0, S = 0xFD,
\* P = 0x24 and PC equal to the word stored at 0xFFFC/0xFFFD.
C11_ResetState ==
  \A i \in Calls :
    hist[i].call = "reset" =>
      /\ After(i).a = 0 /\ After(i).x = 0 /\ After(i).y = 0
      /\ After(i).s = 253
      /\ After(i).p = 36
      /\ After(i).pc = WordAt(Before(i).mem, 65532)

\* reset() has run with the word 0x8000 at 0xFFFC: S = 0x00, P = 0x00 and
\* PC = 0x0000.
C11_Observed ==
  /\ Len(hist) = 1 /\ hist[1].call = "reset"
  /\ WordAt(Before(1).mem, 65532) = 32768
  /\ Before(1).s = 253 /\ Before(1).p = 255
  /\ a = 0 /\ x = 0 /\ y = 0 /\ s = 0 /\ p = 0 /\ pc = 0

\* ASL, LSR, ROL, ROR on the accumulator, and ASL, LSR on memory (zero page,
\* zero page X, absolute, absolute X).
AccShiftCodes == {10, 74, 42, 106}

ZpgShiftCodes == {6, 22, 70, 86}

AbsShiftCodes == {14, 30, 78, 94}

\* What ASL (0x0A, 0x06, 0x16, 0x0E, 0x1E) or LSR stores for input v.
Shifted(code, v) == IF code \in {10, 6, 22, 14, 30} THEN (2 * v) % 256 ELSE v \div 2

\* C12: in accumulator mode a shift reads the pre-shift A, stores its result
\* in A and issues no bus access besides the opcode fetch, so memory is
\* unchanged; in memory mode it reads the bus cell at op once, writes its
\* result to that same cell and leaves A alone.
C12_AccumulatorOperand ==
  \A i \in Calls :
    /\ Clocked(i, AccShiftCodes) =>
         /\ hist[i].bus = <<[kind |-> "r", addr |-> Before(i).pc, data |-> Opcode(i)]>>
         /\ After(i).mem = Before(i).mem
    /\ Clocked(i, {10, 74}) => After(i).a = Shifted(Opcode(i), Before(i).a)
    /\ Clocked(i, ZpgShiftCodes \cup AbsShiftCodes) =>
         LET n   == Len(hist[i].bus)
             at  == After(i).op
             old == busRead(Before(i).mem, at)
         IN  /\ n = (IF Opcode(i) \in ZpgShiftCodes THEN 4 ELSE 5)
             /\ hist[i].bus[n - 1] = [kind |-> "r", addr |-> at, data |-> old]
             /\ hist[i].bus[n] =
                  [kind |-> "w", addr |-> at, data |-> Shifted(Opcode(i), old)]
             /\ \A k \in 1 .. (n - 2) : hist[i].bus[k].kind = "r"
             /\ After(i).mem = busWrite(Before(i).mem, at, Shifted(Opcode(i), old))
             /\ After(i).a = Before(i).a

\* ASL A with A = 0x80 has run: A = 0x00 and the opcode fetch was the only
\* bus access.
C12_Witness ==
  /\ Len(hist) = 1 /\ Clocked(1, {10})
  /\ Before(1).a = 128
  /\ a = 0 /\ Len(hist[1].bus) = 1 /\ mem = Before(1).mem

\* LSR on the accumulator and on memory.
LsrCodes == {74, 70, 86, 78, 94}

\* The value a shift of call i took as input: A in accumulator mode, the
\* cell at op otherwise.
ShiftInput(i) ==
  IF Opcode(i) \in AccShiftCodes THEN Before(i).a
  ELSE busRead(Before(i).mem, After(i).op)

\* The value a shift of call i stored: A in accumulator mode, the cell at op
\* otherwise.
ShiftOutput(i) ==
  IF Opcode(i) \in AccShiftCodes THEN After(i).a
  ELSE busRead(After(i).mem, After(i).op)

\* C13: for every 8-bit input v, LSR writes back v >> 1, sets C to bit 0 of
\* v, sets N to 0 and sets Z iff (v >> 1) = 0.
C13_LsrResult ==
  \A i \in Calls :
    Clocked(i, LsrCodes) =>
      LET v == ShiftInput(i)
      IN  /\ ShiftOutput(i) = v \div 2
          /\ Flag(After(i).p, 1) = v % 2
          /\ Flag(After(i).p, 128) = 0
          /\ Flag(After(i).p, 2) = (IF v \div 2 = 0 THEN 1 ELSE 0)

\* LSR A with A = 0x01 and C = 0 has run: A = 0x00, Z = 1 and C is 0,
\* although bit 0 of the input was 1.
C13_Observed ==
  /\ Len(hist) = 1 /\ Clocked(1, {74})
  /\ Before(1).a = 1 /\ Flag(Before(1).p, 1) = 0
  /\ a = 0 /\ Flag(p, 2) = 1 /\ Flag(p, 1) = 0

\* The (ind),Y opcodes of the official instruction set.
IndYCodes == {17, 49, 81, 113, 145, 177, 209, 241}

\* The word the (ind),Y operand byte of call i points to in zero page.
IndYBase(i) ==
  busRead(Before(i).mem, ImmOperand(i))
    + 256 * busRead(Before(i).mem, (ImmOperand(i) + 1) % 256)

\* C14: the (ind),Y resolver sets op to (W + Y) mod 65536, W being the word
\* read from zero page at LL and (LL + 1) mod 256.
C14_IndYCarries ==
  \A i \in Calls :
    Clocked(i, IndYCodes) => After(i).op = (IndYBase(i) + Before(i).y) % 65536

\* LDA ($10),Y with the word 0x7F7F at 0x10 and Y = 2 has run: op = 0x0081,
\* not 0x7F81.
C14_Observed ==
  /\ Len(hist) = 1 /\ Clocked(1, {177})
  /\ ImmOperand(1) = 16 /\ IndYBase(1) = 32639 /\ Before(1).y = 2
  /\ op = 129

\* Status byte st with B and the unused bit 5 set: st | 0x30.
WithBreakAndUnused(st) ==
  st + (IF Flag(st, 16) = 0 THEN 16 ELSE 0) + (IF Flag(st, 32) = 0 THEN 32 ELSE 0)

\* C15: PHP pushes the byte P | 0x30 for every value of P and leaves the
\* live P unchanged.
C15_PhpPushesBreak ==
  \A i \in Calls :
    Clocked(i, {8}) =>
      /\ Writes(i) # {}
      /\ \A w \in Writes(i) : w.data = WithBreakAndUnused(Before(i).p)
      /\ After(i).p = Before(i).p

\* PHP with P = 0x00 has run: the byte pushed is 0x00, not 0x30.
C15_Observed ==
  /\ Len(hist) = 1 /\ Clocked(1, {8})
  /\ Before(1).p = 0
  /\ \E w \in Writes(1) : w.data = 0
  /\ p = 0

\* C16: PLP loads N, V, D, I, Z, C from the pulled byte and ignores its bits
\* 4 and 5: B keeps its value and bit 5 of P is 1 afterwards.
C16_PlpIgnoresBreak ==
  \A i \in Calls :
    Clocked(i, {40}) =>
      /\ Len(hist[i].bus) = 2
      /\ hist[i].bus[2].kind = "r"
      /\ \A f \in {1, 2, 4, 8, 64, 128} :
           Flag(After(i).p, f) = Flag(hist[i].bus[2].data, f)
      /\ Flag(After(i).p, 16) = Flag(Before(i).p, 16)
      /\ Flag(After(i).p, 32) = 1

\* PHP; PLP with P = 0xFF has run and the PLP pulled 0x00: P = 0x00, so B
\* and bit 5 were taken from the pulled byte.
C16_Observed ==
  /\ Len(hist) = 2 /\ Clocked(1, {8}) /\ Clocked(2, {40})
  /\ Before(2).p = 255 /\ hist[2].bus[2].data = 0
  /\ p = 0

\* The official STA, STX and STY opcodes.
StaCodes == {133, 149, 141, 157, 153, 129, 145}

StxCodes == {134, 150, 142}

StyCodes == {132, 148, 140}

\* The Fibonacci kernel has run from 0x0600 up to its BRK at 0x0617.
FibDone == Len(hist) = 12 /\ Before(1).pc = 1536 /\ pc = 1559 /\ busRead(mem, pc) = 0

\* C17: STA, STX and STY write A, X and Y to the bus cell at op and change no
\* flag and no register; so the Fibonacci kernel run from 0x0600 until BRK
\* leaves memory 0x0000..0x0002 = 01 01 01.
C17_StoresWrite ==
  /\ \A i \in Calls :
       /\ Clocked(i, StaCodes) => busRead(After(i).mem, After(i).op) = Before(i).a
       /\ Clocked(i, StxCodes) => busRead(After(i).mem, After(i).op) = Before(i).x
       /\ Clocked(i, StyCodes) => busRead(After(i).mem, After(i).op) = Before(i).y
       /\ Clocked(i, StaCodes \cup StxCodes \cup StyCodes) =>
            SameRegs(i, {"a", "x", "y", "s", "p"})
  /\ FibDone => busRead(mem, 0) = 1 /\ busRead(mem, 1) = 1 /\ busRead(mem, 2) = 1

\* The Fibonacci kernel has run until BRK over memory 0x0000..0x0002 =
\* 55 55 55: no step wrote to the bus and the three cells still hold 0x55.
C17_Observed ==
  /\ FibDone
  /\ Before(1).mem[0] = 85
  /\ \A i \in Calls : Writes(i) = {}
  /\ busRead(mem, 0) = 85 /\ busRead(mem, 1) = 85 /\ busRead(mem, 2) = 85

\* Opcode, status bit and forced value of each flag-control instruction.
FlagControls ==
  { <<24, FlagC, 0>>, <<56, FlagC, 1>>, <<88, FlagI, 0>>, <<120, FlagI, 1>>,
    <<184, FlagV, 0>>, <<216, FlagD, 0>>, <<248, FlagD, 1>> }

FlagMasks == {1, 2, 4, 8, 16, 32, 64, 128}

\* C18: each flag-control instruction forces exactly its own bit (CLC, CLD,
\* CLI, CLV to 0; SEC, SED, SEI to 1) and leaves every other bit of P and
\* every register unchanged; so C is 0 after SEC; CLC and 1 after CLC; SEC.
C18_FlagControl ==
  /\ \A i \in Calls : \A fc \in FlagControls :
       Clocked(i, {fc[1]}) =>
         /\ Flag(After(i).p, fc[2]) = fc[3]
         /\ \A f \in FlagMasks \ {fc[2]} : Flag(After(i).p, f) = Flag(Before(i).p, f)
         /\ SameRegs(i, {"a", "x", "y", "s"})
  /\ Len(hist) = 2 /\ Clocked(1, {56}) /\ Clocked(2, {24}) => Flag(p, FlagC) = 0
  /\ Len(hist) = 2 /\ Clocked(1, {24}) /\ Clocked(2, {56}) => Flag(p, FlagC) = 1

\* CLC; SEC has run from P = 0x01: CLC cleared C, SEC left P as it was, and
\* C is 0 at the end.
C18_Observed ==
  /\ Len(hist) = 2 /\ Clocked(1, {24}) /\ Clocked(2, {56})
  /\ Before(1).p = 1 /\ Before(2).p = 0
  /\ p = 0

\* C19: BRK at address a pushes the return address a + 2, high byte first,
\* then P | 0x30, sets I, loads PC from the word at 0xFFFE and leaves S three
\* lower (modulo 256).
C19_BrkSequence ==
  \A i \in Calls :
    Clocked(i, {0}) =>
      LET ret == (Before(i).pc + 2) % WordSize
          pushed == SelectSeq(hist[i].bus, LAMBDA e : e.kind = "w")
      IN  /\ Len(pushed) = 3
          /\ pushed[1].data = ret \div ByteSize
          /\ pushed[2].data = ret % ByteSize
          /\ pushed[3].data = WithBreakAndUnused(Before(i).p)
          /\ Flag(After(i).p, FlagI) = 1
          /\ After(i).pc = WordAt(Before(i).mem, 65534)
          /\ After(i).s = (Before(i).s + 253) % ByteSize

\* BRK has run at 0x0600 with the IRQ/BRK vector holding 0x9000: only the
\* opcode was fetched, PC is 0x0601, and S and P are as before.
C19_Observed ==
  /\ Len(hist) = 1 /\ Clocked(1, {0})
  /\ Before(1).pc = 1536 /\ Before(1).s = 253 /\ Before(1).p = 0
  /\ WordAt(Before(1).mem, 65534) = 36864
  /\ Len(hist[1].bus) = 1 /\ Writes(1) = {}
  /\ pc = 1537 /\ s = 253 /\ p = 0

JamCodes == {2, 18, 34, 50, 66, 82, 98, 114, 146, 178, 210, 242}

\* No reset() among the calls after i up to j.
NoResetBetween(i, j) == \A k \in (i + 1) .. j : hist[k].call # "reset"

\* C20: once a JAM opcode has executed, every later step, until reset() is
\* called, changes no register (PC included) and writes nothing to memory.
C20_JamHalts ==
  \A i \in Calls : \A j \in Calls :
    Clocked(i, JamCodes) /\ i < j /\ NoResetBetween(i, j) =>
      /\ SameRegs(j, {"a", "x", "y", "s", "p", "pc"})
      /\ Writes(j) = {}

\* JAM 0x02 has run at 0x0600, and the next clock() has fetched the opcode at
\* 0x0601 and moved PC on.
C20_Observed ==
  /\ Len(hist) = 2 /\ Clocked(1, {2}) /\ hist[2].call = "clock"
  /\ Before(1).pc = 1536 /\ Before(2).pc = 1537
  /\ hist[2].bus[1] = [kind |-> "r", addr |-> 1537, data |-> Before(2).mem[1537]]
  /\ pc # 1537

\* The cycle counts call i reported to its caller.
Reports(i) == IF hist[i].call = "clock" THEN cycles(After(i)) ELSE {}

\* Cycles a branch at address a with offset byte b costs: base 2, one more
\* when taken, one more again when the target is on another page than a + 2.
BranchCycles(taken, from, target) ==
  2 + (IF taken THEN 1 ELSE 0)
    + (IF taken /\ (target \div ByteSize) # (from \div ByteSize) THEN 1 ELSE 0)

\* C21: every step reports one cycle count to its caller, and for a branch
\* that count is base 2, plus 1 when the branch is taken, plus 1 more when the
\* target lies on another page; BNE +4 at 0x01FD with Z = 0 reports 4.
C21_CyclesReported ==
  \A i \in Calls :
    hist[i].call = "clock" =>
      /\ \E n \in 0 .. 9 : Reports(i) = {n}
      /\ Clocked(i, BranchCodes) =>
           Reports(i) =
             {BranchCycles(BranchTaken(Opcode(i), Before(i).p),
                           (Before(i).pc + 2) % WordSize, After(i).pc)}

\* BNE +4 has run at 0x01FD with Z = 0 and crossed to 0x0203; nothing was
\* reported to the caller.
C21_Observed ==
  /\ Len(hist) = 1 /\ Clocked(1, {208})
  /\ Before(1).pc = 509 /\ ImmOperand(1) = 4 /\ Flag(Before(1).p, FlagZ) = 0
  /\ After(1).pc = 515
  /\ BranchCycles(TRUE, 511, 515) = 4
  /\ Reports(1) = {}

\* The registers of a state as the trace sink sees them.
Registers(st) ==
  [a |-> st.a, x |-> st.x, y |-> st.y, s |-> st.s, p |-> st.p, pc |-> st.pc]

\* C22: every step calls the trace sink exactly once, with the PC the step
\* was entered at, the command decoded from the byte at that address, and the
\* registers as they are after the resolver and the operation have run.
C22_TraceOncePerStep ==
  \A i \in Calls :
    hist[i].call = "clock" =>
      /\ Len(hist[i].log) = 1
      /\ hist[i].log[1].pc = Before(i).pc
      /\ hist[i].log[1].cmd = getCommand(Opcode(i))
      /\ hist[i].log[1].cpu = Registers(After(i))

\* LDA #imm has run at 0x0600 and changed A: the sink got one call with
\* pc = 0x0600, the LDA command, and the new A and PC = 0x0602.
C22_Witness ==
  /\ Len(hist) = 1 /\ Clocked(1, {169})
  /\ Before(1).pc = 1536 /\ Before(1).a # ImmOperand(1)
  /\ Len(hist[1].log) = 1
  /\ hist[1].log[1].pc = 1536
  /\ hist[1].log[1].cmd.mn = "LDA"
  /\ hist[1].log[1].cpu.a = ImmOperand(1)
  /\ hist[1].log[1].cpu.pc = 1538

\* N and Z of status byte st are those of the byte v.
ReflectsNZ(st, v) ==
  /\ Flag(st, FlagN) = (v \div 128) % 2
  /\ Flag(st, FlagZ) = (IF v = 0 THEN 1 ELSE 0)

\* Flags of mask in fs are the same before and after call i.
SameFlags(i, fs) == \A f \in fs : Flag(After(i).p, f) = Flag(Before(i).p, f)

EorCodes == {65, 69, 73, 77, 81, 85, 89, 93}

\* The byte call i found at its resolved operand address.
OperandValue(i) == busRead(Before(i).mem, After(i).op)

\* C23: EOR with operand x executed twice in succession leaves A as it was
\* at the start, N and Z reflecting that value, and C, V, I and D unchanged.
C23_EorTwice ==
  \A i \in Calls :
    (i < Len(hist) /\ Clocked(i, EorCodes) /\ Clocked(i + 1, EorCodes)
       /\ OperandValue(i) = OperandValue(i + 1)) =>
      /\ After(i + 1).a = Before(i).a
      /\ ReflectsNZ(After(i + 1).p, Before(i).a)
      /\ SameFlags(i, {FlagC, FlagV, FlagI, FlagD})
      /\ SameFlags(i + 1, {FlagC, FlagV, FlagI, FlagD})

\* EOR #0xFF has run twice from A = 0x0F: A went to 0xF0 and is 0x0F again,
\* with N = 0 and Z = 0.
C23_Witness ==
  /\ Len(hist) = 2 /\ Clocked(1, {73}) /\ Clocked(2, {73})
  /\ ImmOperand(1) = 255 /\ ImmOperand(2) = 255
  /\ Before(1).a = 15 /\ Before(2).a = 240 /\ a = 15
  /\ Before(1).p = 77 /\ Before(2).p = 205 /\ p = 77

IncCodes == {230, 246, 238, 254}

DecCodes == {198, 214, 206, 222}

\* C24: INC m followed by DEC m (or DEC m followed by INC m) restores the
\* cell to its value v; N and Z reflect (v + 1) mod 256 after INC and
\* (v - 1) mod 256 after DEC, hence v after the second of the pair; neither
\* changes C or V.
C24_IncDecRestores ==
  \A i \in Calls :
    /\ Clocked(i, IncCodes) =>
         /\ busRead(After(i).mem, After(i).op) = (OperandValue(i) + 1) % ByteSize
         /\ ReflectsNZ(After(i).p, (OperandValue(i) + 1) % ByteSize)
         /\ SameFlags(i, {FlagC, FlagV})
    /\ Clocked(i, DecCodes) =>
         /\ busRead(After(i).mem, After(i).op) = (OperandValue(i) + 255) % ByteSize
         /\ ReflectsNZ(After(i).p, (OperandValue(i) + 255) % ByteSize)
         /\ SameFlags(i, {FlagC, FlagV})
    /\ (i < Len(hist) /\ After(i).op = After(i + 1).op
          /\ \/ Clocked(i, IncCodes) /\ Clocked(i + 1, DecCodes)
             \/ Clocked(i, DecCodes) /\ Clocked(i + 1, IncCodes)) =>
         /\ busRead(After(i + 1).mem, After(i).op) = OperandValue(i)
         /\ ReflectsNZ(After(i + 1).p, OperandValue(i))

\* INC $10; DEC $10 has run over a cell holding 0xFF: the cell went to 0x00
\* with Z = 1 and is 0xFF again with N = 1, Z = 0, and C and V are as set.
C24_Witness ==
  /\ Len(hist) = 2 /\ Clocked(1, {230}) /\ Clocked(2, {198})
  /\ Before(1).mem[16] = 255 /\ Before(2).mem[16] = 0 /\ mem[16] = 255
  /\ Before(1).p = 65 /\ Before(2).p = 67 /\ p = 193

LaxCodes == {163, 167, 175, 179, 183, 191}

\* C25: LAX loads the operand byte M into both A and X and sets N and Z from
\* M; A7 10 with memory[0x10] = 0x42 ends with A = X = 0x42, N = 0, Z = 0.
C25_LaxLoadsBoth ==
  \A i \in Calls :
    Clocked(i, LaxCodes) =>
      /\ After(i).a = OperandValue(i)
      /\ After(i).x = OperandValue(i)
      /\ ReflectsNZ(After(i).p, OperandValue(i))

\* LAX $10 has run with memory[0x10] = 0x42, A = X = 0x01 and N = Z = 1:
\* the operand address was resolved, the cell was never read, and A, X and P
\* are as before.
C25_Observed ==
  /\ Len(hist) = 1 /\ Clocked(1, {167})
  /\ ImmOperand(1) = 16 /\ Before(1).mem[16] = 66
  /\ Before(1).a = 1 /\ Before(1).x = 1 /\ Before(1).p = 130
  /\ op = 16 /\ Len(hist[1].bus) = 2
  /\ a = 1 /\ x = 1 /\ p = 130

\* Bit k of byte v.
BitOf(v, k) == (v \div (2 ^ k)) % 2

\* A & M is zero: no bit is set in both.
Disjoint(u, v) == \A k \in 0 .. 7 : BitOf(u, k) = 0 \/ BitOf(v, k) = 0

\* C26: BIT sets N to bit 7 of M, V to bit 6 of M and Z to 1 iff A & M is 0,
\* and changes neither A, C, I, D nor the operand cell.
C26_BitTest ==
  \A i \in Calls :
    Clocked(i, {36, 44}) =>
      /\ Flag(After(i).p, FlagN) = BitOf(OperandValue(i), 7)
      /\ Flag(After(i).p, FlagV) = BitOf(OperandValue(i), 6)
      /\ Flag(After(i).p, FlagZ) = (IF Disjoint(Before(i).a, OperandValue(i)) THEN 1 ELSE 0)
      /\ SameFlags(i, {FlagC, FlagI, FlagD})
      /\ SameRegs(i, {"a", "x", "y", "s", "mem"})
      /\ Writes(i) = {}

\* BIT $10 has run with A = 0x01 and memory[0x10] = 0xC0 from P = 0x00:
\* N = 1, V = 1, Z = 1 although the operand is not zero, and A is still 0x01.
C26_Witness ==
  /\ Len(hist) = 1 /\ Clocked(1, {36})
  /\ Before(1).a = 1 /\ OperandValue(1) = 192 /\ Before(1).p = 0
  /\ p = 194 /\ a = 1 /\ mem[16] = 192

\* The core about to run from state st with status byte st0.
CoreFrom(st, st0) ==
  [a |-> st.a, x |-> st.x, y |-> st.y, s |-> st.s, p |-> st0, pc |-> st.pc,
   op |-> st.op, cmd |-> NoCmd, mem |-> st.mem, bus |-> << >>, log |-> << >>]

\* Status byte st with the D flag inverted.
ToggleD(st) == IF Flag(st, FlagD) = 1 THEN st - FlagD ELSE st + FlagD

\* C27: an ADC or SBC started from the same state but for the opposite D
\* flag ends with the same A, N, Z, C and V, and each of the two executions
\* leaves D as it found it.
C27_DecimalInert ==
  \A i \in Calls :
    Clocked(i, {105, 233}) =>
      LET other == clock(CoreFrom(Before(i), ToggleD(Before(i).p)))
      IN  /\ other.a = After(i).a
          /\ \A f \in {FlagN, FlagZ, FlagC, FlagV} : Flag(other.p, f) = Flag(After(i).p, f)
          /\ Flag(After(i).p, FlagD) = Flag(Before(i).p, FlagD)
          /\ Flag(other.p, FlagD) = 1 - Flag(Before(i).p, FlagD)

\* ADC #0x05 has run from A = 0x05, C = 0, D = 0 and left A = 0x0A, where a
\* decimal-mode adder would leave 0x10; the run with D = 1 leaves 0x0A too.
C27_Witness ==
  /\ Len(hist) = 1 /\ Clocked(1, {105})
  /\ Before(1).a = 5 /\ ImmOperand(1) = 5 /\ Before(1).p = 0
  /\ a = 10 /\ p = 0
  /\ clock(CoreFrom(Before(1), FlagD)).a = 10
  /\ clock(CoreFrom(Before(1), FlagD)).p = FlagD

\* Opcodes that leave their result in A, in X, in Y, and in the cell at op.
ResultInA == {161, 165, 169, 173, 177, 181, 185, 189} \cup {33, 37, 41, 45, 49, 53, 57, 61}
               \cup {1, 5, 9, 13, 17, 21, 25, 29} \cup EorCodes \cup {104, 10}

ResultInX == {162, 166, 174, 182, 190, 232, 202}

ResultInY == {160, 164, 172, 180, 188, 200, 136}

ResultInCell == IncCodes \cup DecCodes \cup {6, 14, 22, 30}

\* The 8-bit result call i stored.
Stored(i) ==
  CASE Opcode(i) \in ResultInA -> After(i).a
    [] Opcode(i) \in ResultInX -> After(i).x
    [] Opcode(i) \in ResultInY -> After(i).y
    [] Opcode(i) \in ResultInCell -> busRead(After(i).mem, After(i).op)

\* C28: after LDA, LDX, LDY, AND, ORA, EOR, INC, DEC, INX, INY, DEX, DEY, PLA
\* and ASL, N is bit 7 of the 8-bit result stored and Z is 1 iff that result
\* is 0; INC, INX, INY of 0xFF store 0x00 and DEC, DEX, DEY of 0x00 store 0xFF.
C28_ResultFlags ==
  \A i \in Calls :
    /\ Clocked(i, ResultInA \cup ResultInX \cup ResultInY \cup ResultInCell) =>
         ReflectsNZ(After(i).p, Stored(i))
    /\ Clocked(i, IncCodes) /\ OperandValue(i) = 255 => Stored(i) = 0
    /\ Clocked(i, DecCodes) /\ OperandValue(i) = 0 => Stored(i) = 255
    /\ Clocked(i, {232}) /\ Before(i).x = 255 => Stored(i) = 0
    /\ Clocked(i, {200}) /\ Before(i).y = 255 => Stored(i) = 0
    /\ Clocked(i, {202}) /\ Before(i).x = 0 => Stored(i) = 255
    /\ Clocked(i, {136}) /\ Before(i).y = 0 => Stored(i) = 255

\* DEX has run from X = 0x00 and P = 0x4D (N = 0, Z = 0): X is 0xFF, N = 1
\* and Z = 0.
C28_Witness ==
  /\ Len(hist) = 1 /\ Clocked(1, {202})
  /\ Before(1).x = 0 /\ Before(1).p = 77
  /\ x = 255 /\ Flag(p, FlagN) = 1 /\ Flag(p, FlagZ) = 0

AslCodes == {10, 6, 22, 14, 30}

\* C29: for every 8-bit input v, ASL writes back (v << 1) mod 256, sets C to
\* bit 7 of v and N and Z from the 8-bit result, and leaves V, I and D alone.
C29_AslResult ==
  \A i \in Calls :
    Clocked(i, AslCodes) =>
      LET v == ShiftInput(i)
      IN  /\ ShiftOutput(i) = (2 * v) % ByteSize
          /\ Flag(After(i).p, FlagC) = BitOf(v, 7)
          /\ ReflectsNZ(After(i).p, (2 * v) % ByteSize)
          /\ SameFlags(i, {FlagV, FlagI, FlagD})

\* ASL $10 has run over a cell holding 0x80 from P = 0x00: the cell is 0x00,
\* C = 1, Z = 1 and N = 0.
C29_Witness ==
  /\ Len(hist) = 1 /\ Clocked(1, {6})
  /\ Before(1).mem[16] = 128 /\ Before(1).p = 0 /\ op = 16
  /\ mem[16] = 0 /\ p = 3

\* Operand bytes the resolver of an addressing mode fetches after the opcode.
OperandFetches(mode) ==
  CASE mode \in {"ABS", "ABSX", "ABSY", "IND"} -> 2
    [] mode \in {"ZPG", "ZPGX", "ZPGY", "INDX", "INDY"} -> 1
    [] OTHER -> 0

\* Memory-mode INC, DEC, ASL and LSR.
ModifyCodes == IncCodes \cup DecCodes \cup {6, 22, 14, 30} \cup {70, 86, 78, 94}

\* C30: within a step the opcode fetch at the entry PC is the first bus
\* access, the resolver's fetches of the operand bytes come next and the
\* operation's accesses last; a memory-mode INC, DEC, ASL or LSR then issues
\* one read of the cell at op followed by one write to that cell, and no
\* other write.
C30_AccessOrder ==
  \A i \in Calls :
    hist[i].call = "clock" =>
      LET bus == hist[i].bus
          n   == OperandFetches(hist[i].cmd.mode)
      IN  /\ Len(bus) >= 1 + n
          /\ bus[1] = [kind |-> "r", addr |-> Before(i).pc, data |-> Opcode(i)]
          /\ \A k \in 1 .. n : bus[1 + k].kind = "r"
          /\ {bus[1 + k].addr : k \in 1 .. n} =
               {(Before(i).pc + k) % WordSize : k \in 1 .. n}
          /\ Clocked(i, ModifyCodes) =>
               /\ Len(bus) = n + 3
               /\ bus[n + 2].kind = "r" /\ bus[n + 2].addr = After(i).op
               /\ bus[n + 3].kind = "w" /\ bus[n + 3].addr = After(i).op
               /\ \A k \in 1 .. (n + 2) : bus[k].kind = "r"

\* DEC $0210 has run: the bus saw the opcode fetch at 0x0600, the operand
\* bytes at 0x0601 and 0x0602, then the read of 0x0210 and the write to it.
C30_Witness ==
  /\ Len(hist) >= 1 /\ Clocked(1, {206})
  /\ Before(1).pc = 1536 /\ After(1).op = 528
  /\ [k \in 1 .. 5 |-> hist[1].bus[k].addr] = <<1536, 1537, 1538, 528, 528>>
  /\ [k \in 1 .. 5 |-> hist[1].bus[k].kind] = <<"r", "r", "r", "r", "w">>

\* PHA, PHP, PLA, PLP, JSR, RTS, RTI, BRK and TXS.
StackCodes == {72, 8, 104, 40, 32, 96, 64, 0, 154}

\* Bytes call i moved over the bus besides the opcode and its operand bytes:
\* the bytes a stack instruction pushed or pulled.
Transferred(i) == Len(hist[i].bus) - 1 - OperandFetches(hist[i].cmd.mode)

====
